---- MODULE Spec2Model ----
(***************************************************************************)
(* Model of test_scripts/TestScript2_MultGustsPlots.py (amiet_tools): the  *)
(* multiple-gusts far-field directivity script.                            *)
(*                                                                         *)
(* Number representation.  A Python/NumPy float is held as a fixed-point   *)
(* decimal with four fractional digits: the integer x stands for x/Scale.  *)
(* Products, quotients and roots round to the nearest such number.  Python *)
(* ints of the script (Ux, point counts, loop indices) are integers.  The  *)
(* two non-finite floats the script can produce (nan from the square root  *)
(* of a negative number, inf from a NumPy division by zero) are tagged     *)
(* values, see Num/NaN/Inf.  Complex numbers are records [re, im].         *)
(* Pressure amplitudes returned by the library (delta_p, dipole3D) are     *)
(* Gaussian integers, so that the matrix products of the gust loop are     *)
(* exact; spectral densities are fixed-point in units of 1e-7 Pa^2.        *)
(***************************************************************************)
EXTENDS Integers, Sequences, FiniteSets, TLC

VARIABLES
    kc, b, d, Ux,               \* the script's parameters (lines 42-56)
    pc, err,                    \* position in the script, uncaught exception
    f0, Mach, beta, Kx, ky_crit,\* derived quantities (lines 60-73)
    ky_T,                       \* line 111
    regime, N_ky, Ky, dky,      \* wavenumber sampler (lines 115-131)
    Sqq, Spp_Xdir, Spp_Ydir,    \* lines 134-137
    Phi2,                       \* line 139
    kyi,                        \* loop variable of line 141
    order,                      \* history: gust indices processed, in order
    top,                        \* reordered loop only: gusts taken from the top
    printed,                    \* line 126: the frequency as printed, in tenths
    Spp_Xnorm, Spp_Ynorm        \* lines 172-173

vars == <<kc, b, d, Ux, pc, err, f0, Mach, beta, Kx, ky_crit, ky_T, regime,
          N_ky, Ky, dky, Sqq, Spp_Xdir, Spp_Ydir, Phi2, kyi, order,
          top, printed, Spp_Xnorm, Spp_Ynorm>>

(***************************************************************************)
(* Fixed-point arithmetic                                                  *)
(***************************************************************************)
Scale == 10000

\* np.pi
PI == 31416

Abs(x) == IF x < 0 THEN -x ELSE x
Sign(x) == IF x < 0 THEN -1 ELSE 1

\* x*y for two non-negative fixed-point numbers, without leaving 32 bits
MulAbs(x, y) ==
    LET xh == x \div Scale
        xl == x % Scale
        yh == y \div Scale
        yl == y % Scale
    IN  xh * yh * Scale + xh * yl + xl * yh + (xl * yl + Scale \div 2) \div Scale

\* The arithmetic is held in functions with an operator in front of each: a
\* function's argument is evaluated once, where an operator's argument is
\* evaluated again at each of its occurrences in the operator's body.
Product[x \in Int, y \in Int] == Sign(x) * Sign(y) * MulAbs(Abs(x), Abs(y))

\* x*y for two fixed-point numbers
Mul(x, y) == Product[x, y]

\* n more decimal digits of the quotient q with remainder r, then rounding
LongDiv[q \in Nat, r \in Nat, y \in Nat, n \in Nat] ==
    IF n = 0 THEN (IF 2 * r >= y THEN q + 1 ELSE q)
    ELSE LongDiv[q * 10 + (r * 10) \div y, (r * 10) % y, y, n - 1]

Quotient[x \in Int, y \in Int] ==
    Sign(x) * Sign(y) * LongDiv[Abs(x) \div Abs(y), Abs(x) % Abs(y), Abs(y), 4]

\* x/y for two fixed-point numbers, y # 0
Div(x, y) == Quotient[x, y]

\* bisection for the floor of the square root of v between lo and hi
ISqrtIter[v \in Nat, lo \in Nat, hi \in Nat] ==
    IF lo >= hi THEN lo
    ELSE LET mid == (lo + hi + 1) \div 2
         IN  IF mid * mid <= v THEN ISqrtIter[v, mid, hi]
             ELSE ISqrtIter[v, lo, mid - 1]

\* floor of the square root of a natural number below 2^30
ISqrt(v) == ISqrtIter[v, 0, 32767]

Root[x \in Nat] ==
    LET v == x * Scale
        r == ISqrt(v)
    IN  IF v - r * r > r THEN r + 1 ELSE r

\* np.sqrt of a non-negative fixed-point number
Sqrt(x) == Root[x]

\* non-finite floats
Num(x) == [k |-> "num", v |-> x]
NaN == [k |-> "nan", v |-> 0]
Inf == [k |-> "inf", v |-> 0]
IsNum(x) == x.k = "num"

\* np.ceil of a fixed-point number, as an integer
Ceil(x) == -((-x) \div Scale)

\* '{:.1f}'.format(x): x rounded to the nearest tenth, in tenths
Format1f(x) == (x + Scale \div 20) \div (Scale \div 10)

(***************************************************************************)
(* Parameters (lines 42-56).  The script fixes them as literals; the model *)
(* runs the script for each combination below, which holds the script's    *)
(* own values (b = 0.075, d = 0.225, Ux = 60, kc = 0.5 and the commented   *)
(* kc = 5, kc = 20) and the degenerate ones the error handling is about.   *)
(***************************************************************************)
c0 == 340

KcValues == {5000, 41594, 50000, 200000}
BValues == {-750, 0, 750}
DValues == {-2250, 0, 2230, 2250}
UxValues == {-60, 60, 340, 400}

(***************************************************************************)
(* Lines 60-73                                                             *)
(***************************************************************************)
\* the chord taken for the half chord: kc*c0/(2*np.pi*b)
F0Of_HalfChord(kc_, b_) == Div(kc_ * c0, Mul(2 * PI, b_))

\* f0 = kc*c0/(2*np.pi*(2*b))
F0Of(kc_, b_) == Div(kc_ * c0, Mul(2 * PI, 2 * b_))

\* Mach = Ux/c0
MachOf(Ux_) == Div(Ux_ * Scale, c0 * Scale)

\* beta = np.sqrt(1-Mach**2): nan (with a warning) below zero
BetaOf(Mach_) ==
    LET m2 == Scale - Mul(Mach_, Mach_)
    IN  IF m2 < 0 THEN NaN ELSE Num(Sqrt(m2))

\* Kx = 2*np.pi*f0/Ux
KxOf(f0_, Ux_) == Div(Mul(2 * PI, f0_), Ux_ * Scale)

\* ky_crit = Kx*Mach/beta: beta is a NumPy float, so a zero divisor gives
\* inf (or nan for 0/0) with a warning, not an exception
KyCritOf(Kx_, Mach_, beta_) ==
    IF ~IsNum(beta_) THEN NaN
    ELSE IF beta_.v = 0
         THEN (IF Mul(Kx_, Mach_) = 0 THEN NaN ELSE Inf)
         ELSE Num(Div(Mul(Kx_, Mach_), beta_.v))

(***************************************************************************)
(* Wavenumber sampler (lines 111-131)                                      *)
(***************************************************************************)
\* ky_T = 2*np.pi/d
KyTOf(d_) == Div(2 * PI, d_)

\* the test of line 115 written 'ky_crit <= 2*np.pi/d'
CritLessOrEqual(kyc, kyT) == IsNum(kyc) /\ kyc.v <= kyT

\* the test of line 115, 'ky_crit < 2*np.pi/d': False for nan and for inf
CritLess(kyc, kyT) == IsNum(kyc) /\ kyc.v < kyT

\* line 117
N_ky_low == 41

\* points per period of sin(ky*d), line 123
PointsPerPeriod == 20

\* N_T = 2*ky_crit/ky_T, line 122
N_TOf(kyc, kyT) == Div(2 * kyc, kyT)

\* N_ky = np.int(np.ceil(N_T*20)) + 1, line 123 (np.int is the builtin int)
PointCount(N_T) == Ceil(N_T * PointsPerPeriod) + 1

\* np.linspace(start, stop, num), num >= 0: num points start + i*step with
\* step = (stop-start)/(num-1), the last one set to stop itself
Linspace(start, stop, num) ==
    IF num = 0 THEN << >>
    ELSE IF num = 1 THEN << start >>
    ELSE LET step == Div(stop - start, (num - 1) * Scale)
         IN  [i \in 1..num |->
                 IF i = num THEN stop ELSE start + (i - 1) * step]

(***************************************************************************)
(* Complex numbers and the library's functions.  amiet_tools itself is not *)
(* part of the script: create_airf_mesh, Phi_2D, delta_p and dipole3D are  *)
(* modelled from their contracts, as deterministic functions of their      *)
(* arguments, over a mesh of NumMesh points and arcs of NumMics observers. *)
(***************************************************************************)
NumMesh == 2
NumMics == 2

Complex == [re : Int, im : Int]
Cx(x, y) == [re |-> x, im |-> y]
CZero == Cx(0, 0)
CSumOf[z \in Complex, w \in Complex] == Cx(z.re + w.re, z.im + w.im)
CAdd(z, w) == CSumOf[z, w]
CProduct[z \in Complex, w \in Complex] ==
    Cx(z.re * w.re - z.im * w.im, z.re * w.im + z.im * w.re)
CMul(z, w) == CProduct[z, w]
CConjugate[z \in Complex] == Cx(z.re, -z.im)
CConj(z) == CConjugate[z]
CScaled[z \in Complex, k \in Int] == Cx(z.re * k, z.im * k)
CScale(z, k) == CScaled[z, k]

\* the k-th power of the imaginary unit
IPow(k) ==
    LET r == k % 4
    IN  IF r = 0 THEN Cx(1, 0) ELSE IF r = 1 THEN Cx(0, 1)
        ELSE IF r = 2 THEN Cx(-1, 0) ELSE Cx(0, -1)

RECURSIVE CSum(_, _)
\* sum of f[1..n]
CSum(f, n) == IF n = 0 THEN CZero ELSE CAdd(CSum(f, n - 1), f[n])

\* create_airf_mesh: the area weights dx (per point) and dy
dx(n) == 1
dy == 1

\* Phi_2D(Kx, Ky, u_mean2, length_scale)[0]: a non-negative spectrum value
\* per spanwise wavenumber, largest at Ky = 0 and vanishing beyond 5 rad/m
Phi_2D(Ky_) == [i \in 1..Len(Ky_) |-> IF Abs(Ky_[i]) <= 5 * Scale THEN 1 ELSE 0]

\* delta_p rejects a half chord <= 0 and a Mach number outside (-1, 1)
delta_p_rejects(b_, Mach_) == b_ <= 0 \/ Abs(Mach_) >= Scale

\* delta_p(rho0, b, w0, Ux, Kx, ky, xy, Mach): one complex pressure jump per
\* mesh point, proportional to the gust amplitude w0
delta_p(w0, ky) ==
    [n \in 1..NumMesh |-> CScale(IPow((ky \div Scale) * n + n), w0)]

\* dipole3D(XYZ_airfoil_calc, XZ_farfield or YZ_farfield, k0, ...): the
\* matrix of Green's functions, observers x mesh points; plane is 0 for the
\* y = 0 arc and 1 for the x = 0 arc
dipole3D(plane) ==
    [m \in 1..NumMics |-> [n \in 1..NumMesh |-> IPow((m + plane) * n)]]

dipole_X == 0
dipole_Y == 1

(***************************************************************************)
(* Spectral integration (lines 134-162)                                    *)
(***************************************************************************)
ZeroMatrix == [n \in 1..NumMesh |-> [k \in 1..NumMesh |-> CZero]]
ZeroSpectrum == [m \in 1..NumMics |-> CZero]

\* w0 = np.sqrt(Phi2[kyi])
W0Of(phi) == Sqrt(phi * Scale) \div Scale

\* delta_p1_calc = (delta_p1*dx).reshape(Nx*Ny)*dy
Reweight(p1) == [n \in 1..NumMesh |-> CScale(CScale(p1[n], dx(n)), dy)]

\* the outer product taken without the conjugate: np.outer(p, p)*(Ux)*dky
SqqOf_NoConj(p, Ux_, dky_) ==
    [n \in 1..NumMesh |-> [k \in 1..NumMesh |->
        CScale(CScale(CMul(p[n], p[k]), Ux_), dky_)]]

\* np.outer(delta_p1_calc, delta_p1_calc.conj())*(Ux)*dky
SqqOf(p, Ux_, dky_) ==
    [n \in 1..NumMesh |-> [k \in 1..NumMesh |->
        CScale(CScale(CMul(p[n], CConj(p[k])), Ux_), dky_)]]

\* (G @ Sqq @ H(G))[m][m]
DiagGSG(G, S, m) ==
    LET GS == [k \in 1..NumMesh |->
                  CSum([n \in 1..NumMesh |-> CMul(G[m][n], S[n][k])], NumMesh)]
    IN  CSum([k \in 1..NumMesh |-> CMul(GS[k], CConj(G[m][k]))], NumMesh)

\* np.real(np.diag(G @ Sqq @ H(G)))*4*np.pi
Radiated(G, S) == [m \in 1..NumMics |-> Mul(DiagGSG(G, S, m).re * 4, PI)]

\* the contribution taken away: Spp -= <real array>
AddReal_Subtracting(Spp, r) ==
    [m \in 1..NumMics |-> CAdd(Spp[m], Cx(-r[m], 0))]

\* Spp += <real array>, Spp a complex array
AddReal(Spp, r) == [m \in 1..NumMics |-> CAdd(Spp[m], Cx(r[m], 0))]

\* what gust number i (from 0) adds to the accumulator of an arc
Contribution(Ky_, Phi2_, Ux_, dky_, plane, i) ==
    Radiated(dipole3D(plane),
             SqqOf(Reweight(delta_p(W0Of(Phi2_[i + 1]), Ky_[i + 1])), Ux_, dky_))

\* Spp_max of line 170, 4.296e-8
Spp_max == 4296

\* Spp/Spp_max
Normalised(Spp) ==
    [m \in 1..NumMics |-> Cx(Div(Spp[m].re, Spp_max), Div(Spp[m].im, Spp_max))]

(***************************************************************************)
(* The script, top to bottom.  An uncaught exception ends it: pc = "error" *)
(* and err names the exception.                                            *)
(***************************************************************************)
Init ==
    /\ kc \in KcValues
    /\ b \in BValues
    /\ d \in DValues
    /\ Ux \in UxValues
    /\ pc = "setup"
    /\ err = ""
    /\ f0 = 0 /\ Mach = 0 /\ beta = Num(0) /\ Kx = 0 /\ ky_crit = Num(0)
    /\ ky_T = 0
    /\ regime = "none" /\ N_ky = 0 /\ Ky = << >> /\ dky = 0
    /\ Sqq = << >> /\ Spp_Xdir = << >> /\ Spp_Ydir = << >>
    /\ Phi2 = << >>
    /\ kyi = 0
    /\ order = << >>
    /\ top = 0
    /\ printed = 0
    /\ Spp_Xnorm = << >> /\ Spp_Ynorm = << >>

\* the script stops with an uncaught exception
Raise(e) == pc' = "error" /\ err' = e

\* lines 42-81: a zero divisor between Python floats raises
\* ZeroDivisionError (f0 on line 60, ac_wavelength on line 63, Kx on line 71)
Setup ==
    /\ pc = "setup"
    /\ IF Mul(2 * PI, 2 * b) = 0 \/ F0Of(kc, b) = 0 \/ Ux = 0
       THEN /\ Raise("ZeroDivisionError")
            /\ UNCHANGED <<f0, Mach, beta, Kx, ky_crit>>
       ELSE /\ f0' = F0Of(kc, b)
            /\ Mach' = MachOf(Ux)
            /\ beta' = BetaOf(Mach')
            /\ Kx' = KxOf(f0', Ux)
            /\ ky_crit' = KyCritOf(Kx', Mach', beta')
            /\ pc' = "mesh"
            /\ err' = err
    /\ UNCHANGED <<top, kc, b, d, Ux, ky_T, regime, N_ky, Ky, dky, Sqq, Spp_Xdir,
                   Spp_Ydir, Phi2, kyi, order, printed, Spp_Xnorm, Spp_Ynorm>>

\* lines 86-107: the aerofoil mesh (create_airf_mesh) and the two arcs of
\* far-field points; nothing the later steps read changes
MeshAndArcs ==
    /\ pc = "mesh"
    /\ pc' = "period"
    /\ UNCHANGED <<top, kc, b, d, Ux, err, f0, Mach, beta, Kx, ky_crit, ky_T,
                   regime, N_ky, Ky, dky, Sqq, Spp_Xdir, Spp_Ydir, Phi2, kyi,
                   order, printed, Spp_Xnorm, Spp_Ynorm>>

\* line 111
Period ==
    /\ pc = "period"
    /\ IF d = 0
       THEN Raise("ZeroDivisionError") /\ ky_T' = ky_T
       ELSE ky_T' = KyTOf(d) /\ pc' = "sampler" /\ err' = err
    /\ UNCHANGED <<top, kc, b, d, Ux, f0, Mach, beta, Kx, ky_crit, regime, N_ky,
                   Ky, dky, Sqq, Spp_Xdir, Spp_Ydir, Phi2, kyi, order,
                   printed, Spp_Xnorm, Spp_Ynorm>>

\* lines 115-127.  In the 'high freq' branch int() of nan raises ValueError
\* and of inf OverflowError; np.linspace raises ValueError for a negative
\* number of samples
Sampler ==
    /\ pc = "sampler"
    /\ IF CritLess(ky_crit, KyTOf(d))
       THEN /\ regime' = "low"
            /\ N_ky' = N_ky_low
            /\ Ky' = Linspace(-ky_T, ky_T, N_ky')
            /\ printed' = Format1f(f0)
            /\ pc' = "binwidth"
            /\ err' = err
       ELSE /\ regime' = "high"
            /\ IF ~IsNum(ky_crit)
               THEN /\ Raise(IF ky_crit = NaN THEN "ValueError"
                                              ELSE "OverflowError")
                    /\ UNCHANGED <<N_ky, Ky, printed>>
               ELSE /\ N_ky' = PointCount(N_TOf(ky_crit.v, ky_T))
                    /\ IF N_ky' < 0
                       THEN Raise("ValueError") /\ UNCHANGED <<Ky, printed>>
                       ELSE /\ Ky' = Linspace(-ky_crit.v, ky_crit.v, N_ky')
                            /\ printed' = Format1f(f0)
                            /\ pc' = "binwidth"
                            /\ err' = err
    /\ UNCHANGED <<top, kc, b, d, Ux, f0, Mach, beta, Kx, ky_crit, ky_T, dky, Sqq,
                   Spp_Xdir, Spp_Ydir, Phi2, kyi, order, Spp_Xnorm,
                   Spp_Ynorm>>

\* line 131: dky = Ky[1]-Ky[0], IndexError on a grid of fewer than 2 points
BinWidth ==
    /\ pc = "binwidth"
    /\ IF Len(Ky) < 2
       THEN Raise("IndexError") /\ dky' = dky
       ELSE dky' = Ky[2] - Ky[1] /\ pc' = "alloc" /\ err' = err
    /\ UNCHANGED <<top, kc, b, d, Ux, f0, Mach, beta, Kx, ky_crit, ky_T, regime,
                   N_ky, Ky, Sqq, Spp_Xdir, Spp_Ydir, Phi2, kyi, order,
                   printed, Spp_Xnorm, Spp_Ynorm>>

\* lines 134-139
Alloc ==
    /\ pc = "alloc"
    /\ Sqq' = ZeroMatrix
    /\ Spp_Xdir' = ZeroSpectrum
    /\ Spp_Ydir' = ZeroSpectrum
    /\ Phi2' = Phi_2D(Ky)
    /\ kyi' = 0
    /\ pc' = "loop"
    /\ UNCHANGED <<top, kc, b, d, Ux, err, f0, Mach, beta, Kx, ky_crit, ky_T,
                   regime, N_ky, Ky, dky, order, printed, Spp_Xnorm,
                   Spp_Ynorm>>

\* Sqq += ... in the place of Sqq[:, :] = ...: the gusts' matrices pile up
SqqUpdate_Accumulating(p) ==
    [n \in 1..NumMesh |-> [k \in 1..NumMesh |->
        CAdd(Sqq[n][k], SqqOf(p, Ux, dky)[n][k])]]

\* Sqq[:, :] = ..., line 153: every entry of Sqq is overwritten
SqqUpdate(p) == SqqOf(p, Ux, dky)

\* lines 143-162, the loop body for the gust of index i (from 0)
GustBody(i) ==
    IF delta_p_rejects(b, Mach)
    THEN /\ Raise("DomainError")
         /\ UNCHANGED <<Sqq, Spp_Xdir, Spp_Ydir>>
    ELSE /\ Sqq' = SqqUpdate(Reweight(delta_p(W0Of(Phi2[i + 1]), Ky[i + 1])))
         /\ Spp_Xdir' = AddReal(Spp_Xdir, Radiated(dipole3D(dipole_X), Sqq'))
         /\ Spp_Ydir' = AddReal(Spp_Ydir, Radiated(dipole3D(dipole_Y), Sqq'))
         /\ pc' = pc
         /\ err' = err

\* line 141, 'for kyi in range(Ky.shape[0])': one pass, in ascending order
Gust ==
    /\ pc = "loop"
    /\ kyi < Len(Ky)
    /\ GustBody(kyi)
    /\ IF pc' = "error"
       THEN UNCHANGED <<kyi, order>>
       ELSE kyi' = kyi + 1 /\ order' = Append(order, kyi)
    /\ UNCHANGED <<kc, b, d, Ux, f0, Mach, beta, Kx, ky_crit, ky_T, regime,
                   N_ky, Ky, dky, Phi2, top, printed, Spp_Xnorm, Spp_Ynorm>>

\* the loop left as soon as a gust carries no energy (a truncated sum)
LoopEnd_Truncating ==
    /\ pc = "loop"
    /\ kyi >= Len(Ky) \/ Phi2[kyi + 1] = 0
    /\ pc' = "normalise"
    /\ UNCHANGED <<top, kc, b, d, Ux, err, f0, Mach, beta, Kx, ky_crit, ky_T,
                   regime, N_ky, Ky, dky, Sqq, Spp_Xdir, Spp_Ydir, Phi2, kyi,
                   order, printed, Spp_Xnorm, Spp_Ynorm>>

\* range(Ky.shape[0]) is exhausted
LoopEnd ==
    /\ pc = "loop"
    /\ kyi >= Len(Ky)
    /\ pc' = "normalise"
    /\ UNCHANGED <<top, kc, b, d, Ux, err, f0, Mach, beta, Kx, ky_crit, ky_T,
                   regime, N_ky, Ky, dky, Sqq, Spp_Xdir, Spp_Ydir, Phi2, kyi,
                   order, printed, Spp_Xnorm, Spp_Ynorm>>

\* lines 168-173
Normalise ==
    /\ pc = "normalise"
    /\ Spp_Xnorm' = Normalised(Spp_Xdir)
    /\ Spp_Ynorm' = Normalised(Spp_Ydir)
    /\ pc' = "done"
    /\ UNCHANGED <<top, kc, b, d, Ux, err, f0, Mach, beta, Kx, ky_crit, ky_T,
                   regime, N_ky, Ky, dky, Sqq, Spp_Xdir, Spp_Ydir, Phi2, kyi,
                   order, printed>>

Next ==
    \/ Setup
    \/ MeshAndArcs
    \/ Period
    \/ Sampler
    \/ BinWidth
    \/ Alloc
    \/ Gust
    \/ LoopEnd
    \/ Normalise

Spec == Init /\ [][Next]_vars

\* the script never stops between two statements
FairSpec == Spec /\ WF_vars(Next)

(***************************************************************************)
(* The gust loop as a reduction in another order (spec section 5): the     *)
(* same loop body, taking at each pass either the lowest or the highest    *)
(* gust index not yet processed.  kyi counts the gusts taken from the      *)
(* bottom and top those taken from the top, so that every interleaving of  *)
(* an ascending and a descending worker is a behaviour.                    *)
(***************************************************************************)
GustFromBottom ==
    /\ pc = "loop"
    /\ kyi + top < Len(Ky)
    /\ GustBody(kyi)
    /\ kyi' = IF pc' = "error" THEN kyi ELSE kyi + 1
    /\ UNCHANGED <<kc, b, d, Ux, f0, Mach, beta, Kx, ky_crit, ky_T, regime,
                   N_ky, Ky, dky, Phi2, order, top, printed, Spp_Xnorm,
                   Spp_Ynorm>>

GustFromTop ==
    /\ pc = "loop"
    /\ kyi + top < Len(Ky)
    /\ GustBody(Len(Ky) - 1 - top)
    /\ top' = IF pc' = "error" THEN top ELSE top + 1
    /\ UNCHANGED <<kc, b, d, Ux, f0, Mach, beta, Kx, ky_crit, ky_T, regime,
                   N_ky, Ky, dky, Phi2, order, kyi, printed, Spp_Xnorm,
                   Spp_Ynorm>>

ReorderedLoopEnd ==
    /\ pc = "loop"
    /\ kyi + top >= Len(Ky)
    /\ pc' = "normalise"
    /\ UNCHANGED <<kc, b, d, Ux, err, f0, Mach, beta, Kx, ky_crit, ky_T,
                   regime, N_ky, Ky, dky, Sqq, Spp_Xdir, Spp_Ydir, Phi2, kyi,
                   order, top, printed, Spp_Xnorm, Spp_Ynorm>>

ReorderedNext ==
    \/ Setup
    \/ MeshAndArcs
    \/ Period
    \/ Sampler
    \/ BinWidth
    \/ Alloc
    \/ GustFromBottom
    \/ GustFromTop
    \/ ReorderedLoopEnd
    \/ Normalise

\* the reordered runs take the script's own kc = 0.5 and the two next values
ReorderedInit == Init /\ kc < 200000

ReorderedSpec == ReorderedInit /\ [][ReorderedNext]_vars

(***************************************************************************)
(* Properties                                                              *)
(***************************************************************************)
\* the sampler has produced its grid (line 125 is passed)
Sampled ==
    \/ pc \in {"binwidth", "alloc", "loop", "normalise", "done"}
    \/ pc = "error" /\ err \in {"IndexError", "DomainError"}

\* lines 134-137 are passed
Allocated ==
    \/ pc \in {"loop", "normalise", "done"}
    \/ pc = "error" /\ err = "DomainError"

\* the grid is uniform up to the rounding of its step
Uniform(Ky_, dky_) ==
    \A i \in 1..(Len(Ky_) - 1) : Abs(Ky_[i + 1] - Ky_[i] - dky_) <= Len(Ky_)

Ascending(Ky_) == \A i \in 1..(Len(Ky_) - 1) : Ky_[i] < Ky_[i + 1]

\* C1: whenever ky_crit < ky_T, the grid is a uniform ascending grid of
\* exactly 41 wavenumbers from -ky_T to +ky_T.
C1_LowRegimeGrid ==
    (Sampled /\ IsNum(ky_crit) /\ ky_crit.v < ky_T) =>
        /\ N_ky = 41
        /\ Len(Ky) = 41
        /\ Ky[1] = -ky_T
        /\ Ky[41] = ky_T
        /\ Ascending(Ky)
        /\ Uniform(Ky, Ky[2] - Ky[1])

\* C1 on a positive half span: the same statement, for d > 0.
LowRegimeGridOnPositiveSpan == d > 0 => C1_LowRegimeGrid

\* C2: whenever ky_crit >= ky_T, the sampler yields the uniform grid from
\* -ky_crit to +ky_crit of N_ky = ceil(20 * (2*ky_crit/ky_T)) + 1 points, with
\* N_ky >= 2, both end points on the grid and a spacing of at most ky_T/20
\* (up to one unit of the resolution).
C2_HighRegimeGrid ==
    (regime # "none" /\ IsNum(ky_crit) /\ ky_crit.v >= ky_T) =>
        /\ Sampled
        /\ N_ky = Ceil(20 * Div(2 * ky_crit.v, ky_T)) + 1
        /\ N_ky >= 2
        /\ Len(Ky) = N_ky
        /\ Ky[1] = -ky_crit.v
        /\ Ky[N_ky] = ky_crit.v
        /\ Uniform(Ky, Ky[2] - Ky[1])
        /\ 20 * (Ky[2] - Ky[1]) <= ky_T + 20

\* C2 on a positive half span: the same statement, for d > 0.
HighRegimeGridOnPositiveSpan == d > 0 => C2_HighRegimeGrid

\* C3: both accumulators start as all zeros and, with a positive flow speed
\* and a positive bin width, every entry of each is real and non-negative
\* after any number of gusts.
C3_AccumulatorsNonNegative ==
    Allocated =>
        /\ (kyi = 0 => Spp_Xdir = ZeroSpectrum /\ Spp_Ydir = ZeroSpectrum)
        /\ (Ux > 0 /\ dky > 0) =>
              \A m \in 1..NumMics :
                  /\ Spp_Xdir[m].im = 0 /\ Spp_Xdir[m].re >= 0
                  /\ Spp_Ydir[m].im = 0 /\ Spp_Ydir[m].re >= 0

C3_Witness ==
    /\ pc = "done" /\ Ux > 0 /\ dky > 0
    /\ \E m \in 1..NumMics : Spp_Xdir[m].re > 0 /\ Spp_Ydir[m].re > 0

Hermitian(S) ==
    \A n \in 1..NumMesh : \A k \in 1..NumMesh : S[n][k] = CConj(S[k][n])

\* v^H S v
Quadratic(S, v) ==
    CSum([n \in 1..NumMesh |->
             CSum([k \in 1..NumMesh |->
                      CMul(CMul(CConj(v[n]), S[n][k]), v[k])], NumMesh)],
         NumMesh)

TestVectors ==
    [1..NumMesh -> {Cx(0, 0), Cx(1, 0), Cx(-1, 0), Cx(0, 1), Cx(0, -1)}]

\* C4: Sqq is Hermitian after every gust and, whenever Ux*dky >= 0, has a
\* real non-negative diagonal and a real non-negative quadratic form.
C4_SqqHermitianPSD ==
    Allocated =>
        /\ Hermitian(Sqq)
        /\ (Ux * dky >= 0) =>
              /\ \A n \in 1..NumMesh : Sqq[n][n].im = 0 /\ Sqq[n][n].re >= 0
              /\ \A v \in TestVectors :
                     Quadratic(Sqq, v).im = 0 /\ Quadratic(Sqq, v).re >= 0

C4_Witness ==
    /\ pc = "loop" /\ kyi > 0 /\ Ux * dky > 0
    /\ \E n \in 1..NumMesh : \E k \in 1..NumMesh : Sqq[n][k].im # 0

\* the inputs section 7 of the spec calls domain errors
InvalidInput == b <= 0 \/ d <= 0 \/ Ux >= c0

\* C5: on a non-positive half chord or half span, on Ux >= c0, or on a grid
\* of fewer than 2 points, the script never enters the gust loop.
C5_RejectedBeforeLoop ==
    (InvalidInput \/ (Sampled /\ Len(Ky) < 2)) => ~Allocated

NoNegativePass ==
    (pc = "loop" /\ pc' = "loop") =>
        \A m \in 1..NumMics :
            /\ Spp_Xdir'[m].re - Spp_Xdir[m].re > -Scale
            /\ Spp_Ydir'[m].re - Spp_Ydir[m].re > -Scale

\* C6: a gust whose contribution to an observer is significantly negative
\* (below minus one unit) is never added into an accumulator.
C6_NegativeNeverAccumulated == [][NoNegativePass]_vars

\* C7: when ky_crit equals ky_T the 'high freq' branch is taken and gives
\* 2*20 + 1 = 41 points from -ky_T to +ky_T, the grid of the 'low freq' branch.
C7_BoundaryGrid ==
    (Sampled /\ IsNum(ky_crit) /\ ky_crit.v = ky_T) =>
        /\ regime = "high"
        /\ N_ky = 2 * 20 + 1
        /\ N_ky = 41
        /\ Ky[1] = -ky_T
        /\ Ky[N_ky] = ky_T
        /\ Ky = Linspace(-ky_T, ky_T, 41)

C7_Witness == pc = "done" /\ IsNum(ky_crit) /\ ky_crit.v = ky_T

\* b = 0.075 m, c0 = 340 m/s, kc = 0.5
Scenario == b = 750 /\ kc = 5000 /\ c0 = 340

\* C8 as stated: the scenario's frequency prints as 180.6.
C8_Prints1806 == (Sampled /\ Scenario) => printed = 1806

\* C8, amended: the scenario's frequency is within 0.05 Hz of 180.4 and
\* prints as 180.4.
C8_Prints1804 ==
    (Sampled /\ Scenario) =>
        /\ printed = 1804
        /\ Abs(f0 - 1804000) < 500

C8_Witness == Sampled /\ Scenario /\ d = 2250 /\ Ux = 60 /\ pc = "done"

\* the indices 0 .. n-1 in ascending order
UpTo(n) == [i \in 1..n |-> i - 1]

\* the contributions of the gusts 0 .. n-1 to the accumulator of an arc
SumOfContributions[plane \in {dipole_X, dipole_Y}, n \in Nat] ==
    IF n = 0 THEN ZeroSpectrum
    ELSE AddReal(SumOfContributions[plane, n - 1],
                 Contribution(Ky, Phi2, Ux, dky, plane, n - 1))

\* one pass of the loop: the next index, one contribution to each arc
OnePass ==
    /\ kyi' = kyi + 1
    /\ Spp_Xdir' = AddReal(Spp_Xdir,
                           Contribution(Ky, Phi2, Ux, dky, dipole_X, kyi))
    /\ Spp_Ydir' = AddReal(Spp_Ydir,
                           Contribution(Ky, Phi2, Ux, dky, dipole_Y, kyi))

AccumulatorsKept == Spp_Xdir' = Spp_Xdir /\ Spp_Ydir' = Spp_Ydir

\* C9: the loop processes the indices 0 .. N_ky-1 once each in ascending
\* order, leaves only after N_ky passes, adds one contribution per pass to
\* both accumulators, terminates, and the accumulators are never modified
\* after it.
C9_FixedFiniteSum ==
    /\ [](Allocated => order = UpTo(kyi) /\ kyi <= N_ky)
    /\ [](pc \in {"normalise", "done"} => kyi = N_ky /\ Len(order) = N_ky)
    /\ [][(pc = "loop" /\ pc' = "loop") => OnePass]_vars
    /\ [][(pc \in {"normalise", "done"}) => AccumulatorsKept]_vars
    /\ (pc = "loop" ~> pc \in {"done", "error"})

C9_Witness ==
    /\ pc = "done" /\ Len(order) = N_ky /\ N_ky > 41
    /\ Spp_Xnorm # Spp_Xdir
    /\ \E i \in 1..N_ky : Phi2[i] = 0

\* a pass of the reordered loop on gust i adds the contribution of gust i
PassOn(i) ==
    /\ Spp_Xdir' = AddReal(Spp_Xdir,
                           Contribution(Ky, Phi2, Ux, dky, dipole_X, i))
    /\ Spp_Ydir' = AddReal(Spp_Ydir,
                           Contribution(Ky, Phi2, Ux, dky, dipole_Y, i))

ReorderedPass ==
    \/ kyi' = kyi + 1 /\ top' = top /\ PassOn(kyi)
    \/ top' = top + 1 /\ kyi' = kyi /\ PassOn(Len(Ky) - 1 - top)

\* C10: whatever the order in which the gusts are processed, each pass adds
\* a contribution that depends on the gust's index alone, and the final
\* accumulators are those of the ascending loop, the sum of the
\* contributions over the gust indices.
C10_OrderIndependent ==
    /\ [](pc = "normalise" =>
             /\ Spp_Xdir = SumOfContributions[dipole_X, Len(Ky)]
             /\ Spp_Ydir = SumOfContributions[dipole_Y, Len(Ky)])
    /\ [][(pc = "loop" /\ pc' = "loop") => ReorderedPass]_vars

C10_Witness ==
    /\ pc = "normalise" /\ kyi > 2 /\ top > 2
    /\ \E m \in 1..NumMics : Spp_Xdir[m].re > 0

====
